---- MODULE Spec2Model ----
(***************************************************************************)
(* Model of the request/response pipeline of the AI assistant extension:   *)
(*   - debounceAsync / debouncedSendMessage   (utils.ts, chat.ts)          *)
(*   - applyResponseChanges / deletePath      (fileOperations.ts)          *)
(*   - registerGenerator / findGenerator      (generators/index.ts)        *)
(*   - getApiConfig / getAiMessage / getAiResponse   (api.ts)              *)
(*   - readDirectoryRecursive / buildProjectIndex    (fileOperations.ts)   *)
(*   - Chat.addToHistory and the stored chat history (chat.ts)             *)
(* The specifications SpecDebounce, Spec (the workspace mutator),          *)
(* SpecAutoApply, SpecRegistry, SpecApi, SpecIndex and SpecChat share the  *)
(* module.  Each one leaves the variables of the other subsystems at       *)
(* their initial values.                                                   *)
(***************************************************************************)
EXTENDS Integers, Sequences, FiniteSets, TLC

VARIABLES
    \* ---- debounceAsync closure state (utils.ts) ----
    timeout,        \* handle of the last timer set, 0 = null
    activePromise,  \* id of the promise shared by callers, 0 = null
    armed,          \* timers set and neither fired nor cleared
    inflight,       \* executions of the wrapped fn that have not returned
    settled,        \* promise id -> "pending" | "resolved" | "rejected"
    execs,          \* executions of the wrapped fn started so far, in order
    returned,       \* promise id handed back to each call, in call order
    \* ---- workspace mutator (fileOperations.ts) ----
    rootPath,       \* workspaceFolders[0].uri.fsPath, a string of characters
    fs,             \* location -> [kind, lines]: the workspace as the host sees it
    fs0,            \* the workspace when applyResponseChanges was called
    visible,        \* editor id -> location shown (vscode.window.visibleTextEditors)
    active,         \* vscode.window.activeTextEditor, 0 = undefined
    panel,          \* TRUE when a webview panel is passed, FALSE for null
    history,        \* globalState 'chatHistory'
    history0,       \* globalState 'chatHistory' when applyResponseChanges was called
    pc,             \* position inside applyResponseChanges
    parsedResponse, \* the AiResponse argument: [isArray, actions, message]
    idx,            \* index of the next action of the for loop (1-based)
    confirm,        \* local variable confirm
    promptOutcome,  \* how the confirmation prompt ended ("none" when not shown)
    prompts,        \* number of Yes/No prompts shown
    allSucceeded,   \* local variable allSucceeded
    attempted,      \* indices of the actions whose switch was entered, in order
    failed,         \* action index -> error message caught for it
    ops,            \* host API calls issued, in order
    posted,         \* messages posted to the panel, in order
    notices,        \* showInformationMessage / showWarningMessage toasts, in order
    \* ---- generator registry (generators/index.ts) ----
    generators,     \* the registry array
    loaded,         \* self-registering generator modules already evaluated
    request,        \* input handed to findGenerator
    selected,       \* result of findGenerator ("pending" before the call)
    \* ---- extension configuration (package.json, myAiAssistant.*) ----
    autoApplyChanges, \* myAiAssistant.autoApplyChanges
    openaiApiKey,   \* TRUE when myAiAssistant.openaiApiKey is a non-empty string
    anthropicApiKey,\* TRUE when myAiAssistant.anthropicApiKey is a non-empty string
    openaiModel,    \* myAiAssistant.openaiModel as the user's settings give it
    \* ---- remote model client and response parser (api.ts) ----
    provider,       \* the provider argument of getAiResponse / getAiMessage
    apiPc,          \* position inside getAiResponse
    httpPosts,      \* axios.post calls issued, in order, with how each settled
    rawText,        \* aiMessage: [null, text], the text read out of the reply
    toasts,         \* showWarningMessage / showErrorMessage calls of getAiMessage
    aiResponse,     \* what getAiResponse returned ("pending" before it returns)
    inputTokens,    \* tokens counted for the system prompt plus the input
    requestBody,    \* [sent, model, max_tokens]: the body handed to axios.post
    \* ---- project indexer (fileOperations.ts) ----
    workspaceDir,   \* [open, root]: the tree under workspaceFolders[0], if any
    activeDoc,      \* [open, languageId, path]: document of the active editor
    projectIndex,   \* the module-level projectIndex array (paths)
    indexPc,        \* position of buildProjectIndex
    \* ---- conversation state (chat.ts, fileOperations.ts) ----
    globalState,    \* the value stored under 'chatHistory'
    chatHistory,    \* this.history of the Chat serving the current exchange
    aliased,        \* TRUE when this.history is the very array the store hands out
    chatPc,         \* position inside Chat.sendMessage
    exchanges,      \* chat exchanges started so far
    referencedFiles,\* this.referencedFiles of that Chat, in insertion order
    turns,          \* per exchange: the message, the files referenced by the
                    \* exchanges completed before it, and how it went
    chosen          \* per run of sendMessage that reached findGenerator: the
                    \* user text, the stored history and what find returned

debVars == <<timeout, activePromise, armed, inflight, settled, execs, returned>>
mutVars == <<rootPath, fs, fs0, visible, active, panel, history, history0, pc,
             parsedResponse, idx, confirm, promptOutcome, prompts, allSucceeded,
             attempted, failed, ops, posted, notices>>
regVars == <<generators, loaded, request, selected>>
apiVars == <<autoApplyChanges, openaiApiKey, anthropicApiKey, openaiModel,
             inputTokens, requestBody,
             provider, apiPc, httpPosts, rawText, toasts, aiResponse>>
indexVars == <<workspaceDir, activeDoc, projectIndex, indexPc>>
chatVars == <<globalState, chatHistory, aliased, chatPc, exchanges,
              referencedFiles, turns, chosen>>
extVars == <<apiVars, indexVars, chatVars>>
vars == <<debVars, mutVars, regVars, extVars>>

(***************************************************************************)
(* Bounds                                                                  *)
(***************************************************************************)
MaxCalls == 4      \* chat submissions per behaviour
MaxActions == 2    \* actions per AiResponse
MaxElems == 1      \* actions in the array of a JSON document
MaxFiles == 11     \* source files at the top of a workspace
MaxExchanges == 2  \* chat exchanges per behaviour
MaxRuns == 2       \* runs of sendMessage compared with each other
MaxWords == 4      \* words per request text

Range(s) == {s[i] : i \in 1..Len(s)}

(***************************************************************************)
(* debounceAsync (utils.ts) and debouncedSendMessage (chat.ts)             *)
(***************************************************************************)
Messages == {"create a todo app", "fix that file"}

\* let timeout = null; let activePromise = null;
DebounceInit ==
    /\ timeout = 0
    /\ activePromise = 0
    /\ armed = {}
    /\ inflight = {}
    /\ settled = <<>>
    /\ execs = <<>>
    /\ returned = <<>>

\* clearTimeout(handle): a timer that already fired or was cleared is untouched
clearTimeout(timers, handle) == {t \in timers : t.id # handle}

StartsNewPromise_always(ap) == TRUE

\* `if (!activePromise)`: a new promise and a new timer are made only then
StartsNewPromise(ap) == ap = 0

\* One call of the debounced function: the webview handler of chat.ts awaits
\* debouncedSendMessage(message.text, ...) for a 'chat' command.
debouncedSendMessage(m) ==
    /\ Len(returned) < MaxCalls
    /\ LET cleared == IF timeout # 0 THEN clearTimeout(armed, timeout) ELSE armed
           p == Len(settled) + 1
           t == Len(settled) + 1
       IN  IF StartsNewPromise(activePromise)
           THEN /\ activePromise' = p
                /\ settled' = Append(settled, "pending")
                /\ timeout' = t
                /\ armed' = cleared \cup {[id |-> t, args |-> m, promise |-> p]}
                /\ returned' = Append(returned, p)
           ELSE /\ armed' = cleared
                /\ returned' = Append(returned, activePromise)
                /\ UNCHANGED <<activePromise, settled, timeout>>
    /\ UNCHANGED <<inflight, execs>>
    /\ UNCHANGED <<mutVars, regVars, extVars>>

\* The setTimeout callback starts: `await fn(...args)` calls the wrapped
\* sendMessage with the arguments captured when the timer was set.
TimerFires ==
    /\ \E t \in armed :
         /\ armed' = armed \ {t}
         /\ inflight' = inflight \cup {[promise |-> t.promise, args |-> t.args]}
         /\ execs' = Append(execs, [promise |-> t.promise, args |-> t.args])
    /\ UNCHANGED <<timeout, activePromise, settled, returned>>
    /\ UNCHANGED <<mutVars, regVars, extVars>>

\* fn returns or throws: resolve / reject, then the finally block.
FnSettles ==
    /\ \E x \in inflight, outcome \in {"resolved", "rejected"} :
         /\ inflight' = inflight \ {x}
         /\ settled' = [settled EXCEPT ![x.promise] = outcome]
    /\ timeout' = 0
    /\ activePromise' = 0
    /\ UNCHANGED <<armed, execs, returned>>
    /\ UNCHANGED <<mutVars, regVars, extVars>>

(***************************************************************************)
(* Paths.  A path string is a sequence of one-character strings; a         *)
(* location (what Uri.fsPath denotes) is the sequence of its segments.     *)
(***************************************************************************)
\* the character class [a-zA-Z0-9_./-] of sanitizeFilePath
LegalChars == {"a", "b", "w", "_", ".", "/", "-"}

RECURSIVE CollapseSlashes(_)
\* .replace(/\/+/g, '/')
CollapseSlashes(s) ==
    IF Len(s) <= 1 THEN s
    ELSE IF s[1] = "/" /\ s[2] = "/" THEN CollapseSlashes(Tail(s))
    ELSE <<s[1]>> \o CollapseSlashes(Tail(s))

\* .replace(/[^a-zA-Z0-9_./-]/g, '_'): every other character becomes '_'
ReplaceInvalid(s) == [i \in 1..Len(s) |-> IF s[i] \in LegalChars THEN s[i] ELSE "_"]

sanitizeFilePath(filePath) == CollapseSlashes(ReplaceInvalid(filePath))

RECURSIVE SplitPath(_)
\* split a path string at every '/'
SplitPath(s) ==
    IF s = <<>> THEN << <<>> >>
    ELSE LET rest == SplitPath(Tail(s))
         IN  IF Head(s) = "/" THEN << <<>> >> \o rest
             ELSE << <<Head(s)>> \o Head(rest) >> \o Tail(rest)

RECURSIVE NormalizeSegs(_, _)
\* path.normalize of an absolute path: drop '' and '.', let '..' pop a segment
NormalizeSegs(segs, acc) ==
    IF segs = <<>> THEN acc
    ELSE LET h == Head(segs)
             acc2 == IF h = <<>> \/ h = <<".">> THEN acc
                     ELSE IF h = <<".", ".">>
                          THEN (IF acc = <<>> THEN acc ELSE SubSeq(acc, 1, Len(acc) - 1))
                          ELSE Append(acc, h)
         IN  NormalizeSegs(Tail(segs), acc2)

\* vscode.Uri.file(s).fsPath of an absolute path string, as a location
UriFsPath(s) == NormalizeSegs(SplitPath(s), <<>>)

\* path.join(rootPath, sanitizedPath)
pathJoin(root, p) == NormalizeSegs(SplitPath(root \o <<"/">> \o p), <<>>)

RECURSIVE PathString(_)
\* the path string of a location: '/' + segments joined by '/'
PathString(loc) ==
    IF loc = <<>> THEN <<>> ELSE <<"/">> \o Head(loc) \o PathString(Tail(loc))

IsPrefix(a, b) == Len(a) <= Len(b) /\ SubSeq(b, 1, Len(a)) = a

\* the location lies inside (or is) the workspace root
InsideRoot(loc) == IsPrefix(UriFsPath(rootPath), loc)

(***************************************************************************)
(* The host workspace: files, folders and editors                          *)
(***************************************************************************)
EmptyFs == [l \in {} |-> 0]
Dir == [kind |-> "dir", lines |-> <<>>]
File(lines) == [kind |-> "file", lines |-> lines]

Exists(f, loc) == loc \in DOMAIN f
IsDir(f, loc) == loc \in DOMAIN f /\ f[loc].kind = "dir"
IsFile(f, loc) == loc \in DOMAIN f /\ f[loc].kind = "file"

\* workspace.fs.delete(uri, {recursive: true}): the entry and all below it
RemoveTree(f, loc) == [l \in {x \in DOMAIN f : ~IsPrefix(loc, x)} |-> f[l]]
Put(f, loc, entry) == [l \in DOMAIN f \cup {loc} |-> IF l = loc THEN entry ELSE f[l]]

NoEditors == [e \in {} |-> 0]

\* one host call, as recorded in ops
Op(i, op, loc, ok, ed) == [i |-> i, op |-> op, loc |-> loc, ok |-> ok, ed |-> ed]

(***************************************************************************)
(* FileAction values (types.ts).  An absent or empty path is <<>>, an      *)
(* absent range is <<>>, an absent newText / text is NoText; newText and   *)
(* text are otherwise the length of a text without line breaks; content   *)
(* is the list of line lengths of the file it writes.                      *)
(***************************************************************************)
NoText == 0 - 1
ActionTypes == {"createFolder", "createFile", "editFile", "deleteFile", "deleteFolder", "insertText"}

MkAction(type, path, content, range, newText, text) ==
    [type |-> type, path |-> path, content |-> content, range |-> range,
     newText |-> newText, text |-> text]

\* action.content || ''   (an empty file has one empty line)
ContentOrEmpty(content) == IF content = <<>> THEN <<0>> ELSE content
\* action.text || ''
TextOrEmpty(text) == IF text = NoText THEN 0 ELSE text

\* the result of applying one action: the new workspace and editors, the host
\* calls made, and the message of the error thrown ("" when none was thrown)
Result(f, vis, act, newOps, err) ==
    [fs |-> f, visible |-> vis, active |-> act, ops |-> newOps, err |-> err]

\* lines 184-186: sanitizedPath, fullPath, uri
FullPath(action) == pathJoin(rootPath, sanitizeFilePath(action.path))
HasPath(action) == action.path # <<>>

\* variant: createDirectory is called without looking at stat
ShouldCreateDirectory_always(statOk) == TRUE

\* `catch { createDirectory }`: the folder is created when stat threw
ShouldCreateDirectory(statOk) == ~statOk

\* case 'createFolder' (lines 190-199).  statErr: stat throws although the
\* entry exists; hostErr: createDirectory throws.
createFolderCase(i, action, f, vis, act, hostErr, statErr) ==
    IF ~HasPath(action) THEN Result(f, vis, act, <<>>, "Path required for createFolder.")
    ELSE LET loc == FullPath(action)
             statOk == Exists(f, loc) /\ ~statErr
             statOp == Op(i, "stat", loc, statOk, 0)
         IN  IF ~ShouldCreateDirectory(statOk)
             THEN Result(f, vis, act, <<statOp>>, "")
             ELSE IF hostErr \/ IsFile(f, loc)
                  THEN Result(f, vis, act,
                              <<statOp, Op(i, "createDirectory", loc, FALSE, 0)>>,
                              "createDirectory failed")
                  ELSE Result(IF IsDir(f, loc) THEN f ELSE Put(f, loc, Dir), vis, act,
                              <<statOp, Op(i, "createDirectory", loc, TRUE, 0)>>, "")

\* case 'createFile' (lines 201-208)
createFileCase(i, action, f, vis, act, hostErr) ==
    IF ~HasPath(action) THEN Result(f, vis, act, <<>>, "Path required for createFile.")
    ELSE LET loc == FullPath(action)
         IN  IF hostErr \/ IsDir(f, loc)
             THEN Result(f, vis, act, <<Op(i, "writeFile", loc, FALSE, 0)>>, "writeFile failed")
             ELSE Result(Put(f, loc, File(ContentOrEmpty(action.content))), vis, act,
                         <<Op(i, "writeFile", loc, TRUE, 0)>>, "")

Min(a, b) == IF a <= b THEN a ELSE b

\* TextDocument.lineAt(line) throws for a line outside 0..lineCount-1
LineAtThrows(lines, line) == line < 0 \/ line >= Len(lines)

\* `!uri || !action.range || !action.newText`
EditFileRejects(action) ==
    ~HasPath(action) \/ action.range = <<>> \/ action.newText = NoText \/ action.newText = 0

\* the document after edit.replace(uri, range, newText): r is the clamped range
ReplaceRange(lines, r, k) ==
    LET swap == r[1] > r[3] \/ (r[1] = r[3] /\ r[2] > r[4])
        sl == IF swap THEN r[3] ELSE r[1]
        sc == IF swap THEN r[4] ELSE r[2]
        el == IF swap THEN r[1] ELSE r[3]
        ec == IF swap THEN r[2] ELSE r[4]
    IN  SubSeq(lines, 1, sl) \o <<sc + k + (lines[el + 1] - ec)>>
          \o SubSeq(lines, el + 2, Len(lines))

\* case 'editFile' (lines 210-228).  hostErr: applyEdit returns false.
editFileCase(i, action, f, vis, act, hostErr) ==
    IF EditFileRejects(action)
    THEN Result(f, vis, act, <<>>, "Path, range, and newText required for editFile.")
    ELSE LET loc == FullPath(action)
             openOp(ok) == Op(i, "openTextDocument", loc, ok, 0)
         IN  IF ~IsFile(f, loc)
             THEN Result(f, vis, act, <<openOp(FALSE)>>, "openTextDocument failed")
             ELSE LET lines == f[loc].lines
                      r == action.range
                  IN  IF LineAtThrows(lines, r[1]) \/ LineAtThrows(lines, r[3])
                      THEN Result(f, vis, act, <<openOp(TRUE)>>, "Illegal value for line")
                      ELSE LET clamped == << Min(r[1], Len(lines) - 1),
                                             Min(r[2], lines[r[1] + 1]),
                                             Min(r[3], Len(lines) - 1),
                                             Min(r[4], lines[r[3] + 1]) >>
                           IN  IF hostErr
                               THEN Result(f, vis, act,
                                           <<openOp(TRUE), Op(i, "applyEdit", loc, FALSE, 0)>>,
                                           "Edit application failed.")
                               ELSE Result(Put(f, loc, File(ReplaceRange(lines, clamped, action.newText))),
                                           vis, act,
                                           <<openOp(TRUE), Op(i, "applyEdit", loc, TRUE, 0)>>, "")

\* the editor that has the focus once the active one is closed
NextActive(vis) == IF DOMAIN vis = {} THEN 0 ELSE CHOOSE e \in DOMAIN vis : \A d \in DOMAIN vis : e <= d

\* the editor closed by the command 'workbench.action.closeActiveEditor'
EditorClosedFor(e, act) == act

RECURSIVE CloseLoop(_, _, _, _, _)
\* lines 109-113: one closeActiveEditor per visible editor whose document is
\* the path; todo is the list of those editors, taken when the loop started
CloseLoop(i, todo, vis, act, acc) ==
    IF todo = <<>> THEN [visible |-> vis, active |-> act, ops |-> acc]
    ELSE LET c == EditorClosedFor(Head(todo), act)
         IN  IF c = 0 \/ c \notin DOMAIN vis
             THEN CloseLoop(i, Tail(todo), vis, act,
                            Append(acc, Op(i, "closeActiveEditor", <<>>, TRUE, 0)))
             ELSE LET vis2 == [e \in DOMAIN vis \ {c} |-> vis[e]]
                  IN  CloseLoop(i, Tail(todo), vis2, NextActive(vis2),
                                Append(acc, Op(i, "closeActiveEditor", vis[c], TRUE, c)))

\* the visible editors showing loc, in the order of visibleTextEditors
EditorsShowing(vis, loc) ==
    LET Sel(e) == e \in DOMAIN vis /\ vis[e] = loc
    IN  SelectSeq(<<1, 2>>, Sel)

\* the location deletePath deletes: Uri.file(sanitizeFilePath(filePath))
DeleteTarget(fullLoc) == UriFsPath(sanitizeFilePath(PathString(fullLoc)))

\* deletePath (lines 104-123).  hostErr: workspace.fs.delete throws.
deletePath(i, fullLoc, f, vis, act, hostErr) ==
    LET loc == DeleteTarget(fullLoc)
        closed == CloseLoop(i, EditorsShowing(vis, loc), vis, act, <<>>)
    IN  IF hostErr \/ ~Exists(f, loc)
        THEN Result(f, closed.visible, closed.active,
                    Append(closed.ops, Op(i, "delete", loc, FALSE, 0)), "Deletion failed")
        ELSE Result(RemoveTree(f, loc), closed.visible, closed.active,
                    Append(closed.ops, Op(i, "delete", loc, TRUE, 0)), "")

\* case 'deleteFile' / case 'deleteFolder' (lines 230-238)
deleteCase(i, action, f, vis, act, hostErr) ==
    IF ~HasPath(action)
    THEN Result(f, vis, act, <<>>,
                IF action.type = "deleteFile" THEN "Path required for deleteFile."
                ELSE "Path required for deleteFolder.")
    ELSE deletePath(i, FullPath(action), f, vis, act, hostErr)

\* case 'insertText' (lines 240-247): the text goes to the active editor
insertTextCase(i, action, f, vis, act) ==
    IF act = 0 THEN Result(f, vis, act, <<>>, "No active editor for insertText.")
    ELSE LET loc == vis[act]
             g == IF IsFile(f, loc)
                  THEN Put(f, loc, File([f[loc].lines EXCEPT ![1] = @ + TextOrEmpty(action.text)]))
                  ELSE f
         IN  Result(g, vis, act, <<Op(i, "insert", loc, TRUE, act)>>, "")

\* the host call of this action type that may fail for reasons of the host
HostCanFail(action) ==
    /\ action.type \in {"createFolder", "createFile", "editFile", "deleteFile", "deleteFolder"}
    /\ HasPath(action)

\* the switch of lines 189-251
applyAction(i, action, f, vis, act, hostErr, statErr) ==
    CASE action.type = "createFolder" -> createFolderCase(i, action, f, vis, act, hostErr, statErr)
      [] action.type = "createFile" -> createFileCase(i, action, f, vis, act, hostErr)
      [] action.type = "editFile" -> editFileCase(i, action, f, vis, act, hostErr)
      [] action.type \in {"deleteFile", "deleteFolder"} -> deleteCase(i, action, f, vis, act, hostErr)
      [] action.type = "insertText" -> insertTextCase(i, action, f, vis, act)
      [] OTHER -> Result(f, vis, act, <<>>, "Unknown action type")

(***************************************************************************)
(* applyResponseChanges (fileOperations.ts, lines 132-282)                 *)
(***************************************************************************)
\* variant: a prompt whenever the batch has actions
requiresConfirmation_anyAction(actions) == Len(actions) > 0

\* lines 148-150: !actions.every(action => action.type === 'insertText')
requiresConfirmation(actions) == \E i \in 1..Len(actions) : actions[i].type # "insertText"

\* variant: a timed-out prompt leaves confirm undefined
ConfirmAfterPrompt_timeoutUndefined(before, outcome) ==
    CASE outcome = "Yes" -> "Yes"
      [] outcome = "No" -> "No"
      [] outcome = "dismissed" -> "undefined"
      [] outcome = "timeout" -> "undefined"

\* what the local variable confirm holds once the prompt has ended: the
\* button pressed, undefined for a dismissed prompt, and on a timeout the
\* value it had before, since the rejected await assigns nothing (line 155)
ConfirmAfterPrompt(before, outcome) ==
    CASE outcome = "Yes" -> "Yes"
      [] outcome = "No" -> "No"
      [] outcome = "dismissed" -> "undefined"
      [] outcome = "timeout" -> before

\* variant: only a missing answer counts as declining
Declined_onlyUndefined(c) == c = "undefined"

\* line 173: if (confirm !== 'Yes') { ... return; }
Declined(c) == c # "Yes"

\* variant: the loop stops at the first failing action
NextIndex_stopOnError(i, err) == IF err = "" THEN i + 1 ELSE Len(parsedResponse.actions) + 1

\* the for loop of line 183 goes on to the next action whatever happened
NextIndex(i, err) == i + 1

\* parsedResponse.message || 'Actions completed.'
Reply(message) == IF message = "" THEN "Actions completed." ELSE message

\* files: parsedResponse.actions.map(a => a.path).filter(Boolean)
ActionPaths(actions) ==
    LET HasP(a) == a.path # <<>>
        withPath == SelectSeq(actions, HasP)
    IN  [j \in 1..Len(withPath) |-> withPath[j].path]

\* a message handed to panel.webview.postMessage; the mutator sets no command
Post(kind, text) == [command |-> "none", kind |-> kind, text |-> text]

\* entry of applyResponseChanges up to the first await (lines 138-167)
Begin ==
    /\ pc = "start"
    /\ IF ~parsedResponse.isArray
       THEN /\ posted' = IF parsedResponse.message # "" /\ panel
                         THEN Append(posted, Post("message", parsedResponse.message))
                         ELSE posted
            /\ pc' = "done"
            /\ UNCHANGED prompts
       ELSE IF requiresConfirmation(parsedResponse.actions)
            THEN /\ prompts' = prompts + 1
                 /\ pc' = "prompt"
                 /\ UNCHANGED posted
            ELSE /\ pc' = "apply"
                 /\ UNCHANGED <<prompts, posted>>
    /\ UNCHANGED <<rootPath, fs, fs0, visible, active, panel, history, history0,
                   parsedResponse, idx, confirm, promptOutcome, allSucceeded,
                   attempted, failed, ops, notices>>
    /\ UNCHANGED <<debVars, regVars, extVars>>

\* the Promise.race of lines 155-167 settles, then lines 168-178
PromptEnds ==
    /\ pc = "prompt"
    /\ \E outcome \in {"Yes", "No", "dismissed", "timeout"} :
         LET c == ConfirmAfterPrompt(confirm, outcome)
         IN  /\ promptOutcome' = outcome
             /\ confirm' = c
             /\ notices' = IF outcome = "timeout"
                           THEN Append(notices, "Prompt timed out. Applying changes.")
                           ELSE notices
             /\ IF Declined(c)
                THEN /\ posted' = IF panel THEN Append(posted, Post("discarded", "Changes discarded."))
                                  ELSE posted
                     /\ pc' = "done"
                ELSE /\ pc' = "apply"
                     /\ UNCHANGED posted
    /\ UNCHANGED <<rootPath, fs, fs0, visible, active, panel, history, history0,
                   parsedResponse, idx, prompts, allSucceeded, attempted, failed, ops>>
    /\ UNCHANGED <<debVars, regVars, extVars>>

\* one iteration of the for loop (lines 183-260)
ApplyAction ==
    /\ pc = "apply"
    /\ idx <= Len(parsedResponse.actions)
    /\ LET action == parsedResponse.actions[idx]
       IN  \E hostErr \in BOOLEAN, statErr \in BOOLEAN :
             /\ hostErr => HostCanFail(action)
             /\ statErr => (action.type = "createFolder" /\ HasPath(action)
                            /\ Exists(fs, FullPath(action)) /\ ~hostErr)
             /\ LET r == applyAction(idx, action, fs, visible, active, hostErr, statErr)
                IN  /\ fs' = r.fs
                    /\ visible' = r.visible
                    /\ active' = r.active
                    /\ ops' = ops \o r.ops
                    /\ attempted' = Append(attempted, idx)
                    /\ IF r.err # ""
                       THEN /\ failed' = [j \in DOMAIN failed \cup {idx} |->
                                            IF j = idx THEN r.err ELSE failed[j]]
                            /\ posted' = IF panel THEN Append(posted, Post("error", r.err))
                                         ELSE posted
                            /\ allSucceeded' = FALSE
                       ELSE UNCHANGED <<failed, posted, allSucceeded>>
                    /\ idx' = NextIndex(idx, r.err)
    /\ UNCHANGED <<rootPath, fs0, panel, history, history0, pc, parsedResponse,
                   confirm, promptOutcome, prompts, notices>>
    /\ UNCHANGED <<debVars, regVars, extVars>>

RecordsExchange_anyOutcome(panelGiven, succeeded) == panelGiven

\* lines 263-264: if (panel) ... if (allSucceeded)
RecordsExchange(panelGiven, succeeded) == panelGiven /\ succeeded

\* after the loop (lines 262-281)
Report ==
    /\ pc = "apply"
    /\ idx > Len(parsedResponse.actions)
    /\ LET reply == Reply(parsedResponse.message)
       IN  /\ posted' = IF panel THEN Append(posted, Post("reply", reply)) ELSE posted
           /\ history' = IF RecordsExchange(panel, allSucceeded)
                         THEN Append(history, [user |-> "", ai |-> reply,
                                               files |-> ActionPaths(parsedResponse.actions)])
                         ELSE history
    /\ notices' = Append(notices, IF allSucceeded THEN "Changes applied successfully!"
                                  ELSE "Some changes failed; check logs.")
    /\ pc' = "done"
    /\ UNCHANGED <<rootPath, fs, fs0, visible, active, panel, history0,
                   parsedResponse, idx, confirm, promptOutcome, prompts, allSucceeded,
                   attempted, failed, ops>>
    /\ UNCHANGED <<debVars, regVars, extVars>>

(***************************************************************************)
(* Inputs of the mutator: workspaces, editors and responses                *)
(***************************************************************************)
Roots == { <<"/", "w">> }

pA == <<"a">>
pB == <<"b">>
pAB == <<"a", "/", "b">>
pUpB == <<".", ".", "/", "b">>
pBSpace == <<"b", " ">>

\* workspaces under root r the handler may be called in
Workspaces(r) ==
    { EmptyFs,
      [l \in {pathJoin(r, pA), pathJoin(r, pAB), pathJoin(r, pB)} |->
         IF l = pathJoin(r, pA) THEN Dir
         ELSE IF l = pathJoin(r, pAB) THEN File(<<2, 1>>) ELSE File(<<3>>)] }

\* visible editors and active editor over workspace f
EditorLayouts(r, f) ==
    {[visible |-> NoEditors, active |-> 0]} \cup
    (IF f = EmptyFs THEN {}
     ELSE { [visible |-> [e \in {1} |-> pathJoin(r, pB)], active |-> 1],
            [visible |-> [e \in {1, 2} |-> IF e = 1 THEN pathJoin(r, pB) ELSE pathJoin(r, pAB)],
             active |-> 1],
            [visible |-> [e \in {1, 2} |-> IF e = 1 THEN pathJoin(r, pB) ELSE pathJoin(r, pAB)],
             active |-> 2],
            [visible |-> [e \in {1, 2} |-> pathJoin(r, pB)], active |-> 1] })

ActionUniverse ==
    { MkAction("createFolder", pA, <<>>, <<>>, NoText, NoText),
      MkAction("createFolder", <<>>, <<>>, <<>>, NoText, NoText),
      MkAction("createFolder", pUpB, <<>>, <<>>, NoText, NoText),
      MkAction("createFile", pA, <<>>, <<>>, NoText, NoText),
      MkAction("createFile", pBSpace, <<1, 1>>, <<>>, NoText, NoText),
      MkAction("editFile", pB, <<>>, <<0, 1, 0, 2>>, 1, NoText),
      MkAction("editFile", pB, <<>>, <<0, 0, 5, 0>>, 1, NoText),
      MkAction("editFile", pB, <<>>, <<0, 0, 0, 9>>, 1, NoText),
      MkAction("editFile", pB, <<>>, <<0, 1, 0, 2>>, 0, NoText),
      MkAction("editFile", pB, <<>>, <<>>, 1, NoText),
      MkAction("deleteFile", pB, <<>>, <<>>, NoText, NoText),
      MkAction("deleteFile", <<>>, <<>>, <<>>, NoText, NoText),
      MkAction("deleteFolder", pA, <<>>, <<>>, NoText, NoText),
      MkAction("insertText", <<>>, <<>>, <<>>, NoText, 1),
      MkAction("insertText", <<>>, <<>>, <<>>, NoText, NoText),
      MkAction("renameFile", pA, <<>>, <<>>, NoText, NoText) }

Batches == UNION {[1..n -> ActionUniverse] : n \in 0..MaxActions}

Responses ==
    {[isArray |-> TRUE, actions |-> b, message |-> m] : b \in Batches, m \in {"", "Done."}}
    \cup {[isArray |-> FALSE, actions |-> <<>>, message |-> "Done."]}

\* the call applyResponseChanges(parsedResponse, panel, context, workspaceFolders)
\* in a workspace under one of roots, with a response drawn from responses
MutatorInitWith(roots, responses) ==
    /\ rootPath \in roots
    /\ fs \in Workspaces(rootPath)
    /\ fs0 = fs
    /\ \E lay \in EditorLayouts(rootPath, fs) :
         /\ visible = lay.visible
         /\ active = lay.active
    /\ panel \in BOOLEAN
    /\ history = <<>>
    /\ history0 = history
    /\ parsedResponse \in responses
    /\ pc = "start"
    /\ idx = 1
    /\ confirm = "Yes"
    /\ promptOutcome = "none"
    /\ prompts = 0
    /\ allSucceeded = TRUE
    /\ attempted = <<>>
    /\ failed = [j \in {} |-> ""]
    /\ ops = <<>>
    /\ posted = <<>>
    /\ notices = <<>>

MutatorInit == MutatorInitWith(Roots, Responses)

\* the mutator is not called
MutatorIdle ==
    /\ rootPath = <<"/", "w">>
    /\ fs = EmptyFs
    /\ fs0 = EmptyFs
    /\ visible = NoEditors
    /\ active = 0
    /\ panel = FALSE
    /\ history = <<>>
    /\ history0 = <<>>
    /\ parsedResponse = [isArray |-> TRUE, actions |-> <<>>, message |-> ""]
    /\ pc = "off"
    /\ idx = 1
    /\ confirm = "Yes"
    /\ promptOutcome = "none"
    /\ prompts = 0
    /\ allSucceeded = TRUE
    /\ attempted = <<>>
    /\ failed = [j \in {} |-> ""]
    /\ ops = <<>>
    /\ posted = <<>>
    /\ notices = <<>>

\* the registry is not exercised
RegistryIdle ==
    /\ generators = <<>>
    /\ loaded = {}
    /\ request = <<>>
    /\ selected = "pending"

(***************************************************************************)
(* Response parser (api.ts, getAiResponse).  A raw model text is a         *)
(* sequence of tokens: JSON punctuation, string literals ("str:x" is the   *)
(* literal whose content is x), the number 1, null, a word of prose, and   *)
(* the markers of a fenced json block: "fence:json" is three backticks,    *)
(* json and a line feed, "fence:end" a line feed and three backticks.      *)
(***************************************************************************)
\* the string literals of the texts and the strings they denote
StringValue ==
    ("str:actions" :> "actions") @@ ("str:message" :> "message")
    @@ ("str:type" :> "type") @@ ("str:hi" :> "hi")

\* JSON values of kind t: "string" (s its content), "number", "null",
\* "array" (items its elements), "object" (items its members, each a value
\* of kind "member" named s holding one item), and "undefined"
JValue(t, s, items) == [t |-> t, s |-> s, items |-> items]

At(toks, i) == IF i \in 1..Len(toks) THEN toks[i] ELSE "EOF"

SyntaxError == [ok |-> FALSE, val |-> JValue("undefined", "", <<>>), next |-> 0]

RECURSIVE ParseValue(_, _), ParseElements(_, _, _), ParseMembers(_, _, _)

\* the value that starts at token i, and the index after it
ParseValue(toks, i) ==
    LET tok == At(toks, i)
        Parsed(val, next) == [ok |-> TRUE, val |-> val, next |-> next]
    IN  IF tok \in DOMAIN StringValue
        THEN Parsed(JValue("string", StringValue[tok], <<>>), i + 1)
        ELSE IF tok = "1" THEN Parsed(JValue("number", "", <<>>), i + 1)
        ELSE IF tok = "null" THEN Parsed(JValue("null", "", <<>>), i + 1)
        ELSE IF tok = "["
             THEN IF At(toks, i + 1) = "]" THEN Parsed(JValue("array", "", <<>>), i + 2)
                  ELSE ParseElements(toks, i + 1, <<>>)
        ELSE IF tok = "{"
             THEN IF At(toks, i + 1) = "}" THEN Parsed(JValue("object", "", <<>>), i + 2)
                  ELSE ParseMembers(toks, i + 1, <<>>)
        ELSE SyntaxError

\* the elements of an array from token i on, acc holding those before
ParseElements(toks, i, acc) ==
    LET v == ParseValue(toks, i)
    IN  IF ~v.ok THEN SyntaxError
        ELSE IF At(toks, v.next) = ","
             THEN ParseElements(toks, v.next + 1, Append(acc, v.val))
        ELSE IF At(toks, v.next) = "]"
             THEN [ok |-> TRUE, val |-> JValue("array", "", Append(acc, v.val)),
                   next |-> v.next + 1]
        ELSE SyntaxError

\* the members of an object from token i on, acc holding those before
ParseMembers(toks, i, acc) ==
    IF At(toks, i) \notin DOMAIN StringValue \/ At(toks, i + 1) # ":" THEN SyntaxError
    ELSE LET v == ParseValue(toks, i + 2)
             m == JValue("member", StringValue[At(toks, i)], <<v.val>>)
         IN  IF ~v.ok THEN SyntaxError
             ELSE IF At(toks, v.next) = ","
                  THEN ParseMembers(toks, v.next + 1, Append(acc, m))
             ELSE IF At(toks, v.next) = "}"
                  THEN [ok |-> TRUE, val |-> JValue("object", "", Append(acc, m)),
                        next |-> v.next + 1]
             ELSE SyntaxError

\* JSON.parse: the whole text must be one value
JSONparse(toks) ==
    LET r == ParseValue(toks, 1)
    IN  IF r.ok /\ r.next = Len(toks) + 1 THEN r ELSE SyntaxError

\* v[key]: the last member of that name, undefined when there is none or
\* when v is not an object (reading a property of null throws instead)
Get(v, key) ==
    LET hits == {k \in 1..Len(v.items) : v.items[k].s = key}
    IN  IF v.t # "object" \/ hits = {} THEN JValue("undefined", "", <<>>)
        ELSE v.items[CHOOSE k \in hits : \A h \in hits : h <= k].items[1]

\* Array.isArray(parsed.actions) && typeof parsed.message === 'string'
ValidStructure(v) ==
    /\ v.t # "null"
    /\ Get(v, "actions").t = "array"
    /\ Get(v, "message").t = "string"

\* aiMessage.match(/```json\n([\s\S]*?)\n```/): the text between the first
\* opening marker and the first closing marker after it
jsonMatch(toks) ==
    LET opens == {k \in 1..Len(toks) : toks[k] = "fence:json"}
        first == CHOOSE k \in opens : \A h \in opens : k <= h
        closes == {k \in 1..Len(toks) : toks[k] = "fence:end" /\ k > first}
        last == CHOOSE k \in closes : \A h \in closes : k <= h
    IN  IF opens = {} \/ closes = {} THEN [matched |-> FALSE, inner |-> <<>>]
        ELSE [matched |-> TRUE, inner |-> SubSeq(toks, first + 1, last - 1)]

\* what getAiResponse hands back without a response: "null", "throws"
\* (a rejected promise), or "pending" while it has not returned
NoResponse(kind) == [kind |-> kind, actions |-> <<>>, message |-> <<>>]

\* return parsed as AiResponse
AsAiResponse(v) ==
    [kind |-> "response", actions |-> Get(v, "actions").items,
     message |-> <<Get(v, "message").s>>]

ParseFallback_rethrow(aiMessage) == NoResponse("throws")

\* return { actions: [], message: aiMessage }   (line 225)
ParseFallback(aiMessage) ==
    [kind |-> "response", actions |-> <<>>, message |-> aiMessage]

\* lines 204-226 of getAiResponse; aiMessage is [null, text]
parseAiMessage(aiMessage) ==
    IF aiMessage.null \/ aiMessage.text = <<>> THEN NoResponse("null")
    ELSE LET whole == JSONparse(aiMessage.text)
             m == jsonMatch(aiMessage.text)
             inner == JSONparse(m.inner)
         IN  IF whole.ok /\ ValidStructure(whole.val) THEN AsAiResponse(whole.val)
             ELSE IF m.matched /\ m.inner # <<>> /\ inner.ok /\ ValidStructure(inner.val)
                  THEN AsAiResponse(inner.val)
             ELSE ParseFallback(aiMessage.text)

\* raw texts a model can answer with: JSON documents with and without the
\* members of an AiResponse, their truncations, prose, fenced blocks with
\* prose around them, fences left open, and documents with prose around
RawTexts ==
    LET action == <<"{", "str:type", ":", "str:hi", "}">>
        Elements(n) == [i \in 1..(IF n = 0 THEN 0 ELSE 6 * n - 1) |->
                           IF i % 6 = 0 THEN "," ELSE action[i % 6]]
        ArrayOf(n) == <<"[">> \o Elements(n) \o <<"]">>
        Member(key, value) == <<key, ":">> \o value
        ObjectOf1(m1) == <<"{">> \o m1 \o <<"}">>
        ObjectOf2(m1, m2) == <<"{">> \o m1 \o <<",">> \o m2 \o <<"}">>
        hi == <<"str:hi">>
        documents ==
            {ObjectOf2(Member("str:actions", ArrayOf(n)), Member("str:message", m)) :
                n \in 0..MaxElems, m \in {hi, <<"1">>}}
            \cup {ObjectOf2(Member("str:message", hi), Member("str:actions", ArrayOf(n))) :
                n \in 0..MaxElems}
            \cup {ObjectOf2(Member("str:actions", v), Member("str:message", hi)) :
                v \in {<<"1">>, <<"null">>, hi, <<"{", "}">>}}
            \cup {ObjectOf1(Member("str:actions", ArrayOf(n))) : n \in 0..MaxElems}
            \cup {ObjectOf1(Member("str:message", hi))}
            \cup {<<"null">>, <<"[", "]">>, hi, <<"1">>, <<"{", "}">>}
        truncated == UNION {{SubSeq(d, 1, k) : k \in 1..(Len(d) - 1)} : d \in documents}
        prose == {<<"word">>, <<"word", "word">>}
        chatter == {<<>>, <<"word">>}
        fenced == {pre \o <<"fence:json">> \o inner \o <<"fence:end">> \o post :
                      pre \in chatter, post \in chatter,
                      inner \in documents \cup truncated \cup prose \cup {<<>>}}
        unclosed == {pre \o <<"fence:json">> \o d : pre \in chatter, d \in documents}
        wrapped == {<<"word">> \o d : d \in documents}
                   \cup {d \o <<"word">> : d \in documents}
    IN  {<<>>} \cup documents \cup truncated \cup prose \cup fenced
        \cup unclosed \cup wrapped

(***************************************************************************)
(* Remote model client (api.ts, getApiConfig and getAiMessage)             *)
(***************************************************************************)
\* lines 12-13
DEFAULT_MODEL == "gpt-4"
SUPPORTED_OPENAI_MODELS == {"gpt-4", "gpt-4.5-preview", "gpt-4o-mini"}

\* lines 16-21: context window and output limit of each model
MODEL_SPEC ==
    ("gpt-4" :> [contextWindow |-> 8192, maxOutputTokens |-> 4096])
    @@ ("gpt-4.5-preview" :> [contextWindow |-> 128000, maxOutputTokens |-> 16384])
    @@ ("gpt-4o-mini" :> [contextWindow |-> 128000, maxOutputTokens |-> 16384])
    @@ ("claude-3-7-sonnet-20250219" :> [contextWindow |-> 200000, maxOutputTokens |-> 4096])

requestFormat_noFloor(model, tokens) ==
    LET room == MODEL_SPEC[model].contextWindow - tokens - 100
        maxTokens == IF MODEL_SPEC[model].maxOutputTokens < room
                     THEN MODEL_SPEC[model].maxOutputTokens ELSE room
    IN  [sent |-> TRUE, model |-> model, max_tokens |-> maxTokens]

\* the requestFormat closures (lines 107-123 and 139-154): Math.min of the
\* output limit and the room left in the context window, then Math.max
\* with 1; tokens is the count estimateTokens / countTokens gave
requestFormat(model, tokens) ==
    LET room == MODEL_SPEC[model].contextWindow - tokens - 100
        maxTokens == IF MODEL_SPEC[model].maxOutputTokens < room
                     THEN MODEL_SPEC[model].maxOutputTokens ELSE room
    IN  [sent |-> TRUE, model |-> model,
         max_tokens |-> IF 1 > maxTokens THEN 1 ELSE maxTokens]

\* getApiConfig (lines 86-158): the endpoint and the key it returns, or the
\* Error of line 132.  Lines 94-100 turn 'anthropic' into 'openai' when the
\* Anthropic key is unset.
getApiConfig(prov) ==
    LET effective == IF prov = "anthropic" /\ ~anthropicApiKey THEN "openai" ELSE prov
        model == IF effective = "anthropic" THEN "claude-3-7-sonnet-20250219"
                 ELSE IF openaiModel \in SUPPORTED_OPENAI_MODELS THEN openaiModel
                 ELSE DEFAULT_MODEL
    IN  IF effective = "anthropic"
        THEN [throws |-> FALSE, endpoint |-> "anthropic", apiKey |-> "anthropicApiKey",
              model |-> model]
        ELSE IF ~openaiApiKey
             THEN [throws |-> TRUE, endpoint |-> "openai", apiKey |-> "none",
                   model |-> model]
             ELSE [throws |-> FALSE, endpoint |-> "openai", apiKey |-> "openaiApiKey",
                   model |-> model]

\* how an axios.post can settle: a 200 reply carrying a text, an error with
\* a response status, or an error without a response
Outcomes ==
    {[kind |-> "ok", status |-> 200, text |-> t] : t \in RawTexts}
    \cup {[kind |-> "status", status |-> s, text |-> <<>>] : s \in {429, 401, 500}}
    \cup {[kind |-> "network", status |-> 0, text |-> <<c>>] :
            c \in {"ETIMEDOUT", "ECONNABORTED", "ECONNRESET"}}

ToastFor_generic(status, prov) ==
    [kind |-> "error", text |-> "AI request failed", provider |-> prov]

\* lines 188-194: the message shown for a caught error; status is 0 when the
\* error carries no response
ToastFor(status, prov) ==
    IF status = 429
    THEN [kind |-> "warning", text |-> "Rate limit exceeded", provider |-> prov]
    ELSE [kind |-> "error", text |-> "AI request failed", provider |-> prov]

\* getAiResponse -> getAiMessage up to the await of axios.post (lines 164-177)
SendRequest ==
    /\ apiPc = "start"
    /\ LET config == getApiConfig(provider)
       IN  IF config.throws
           THEN /\ toasts' = Append(toasts, ToastFor(0, provider))
                /\ rawText' = [null |-> TRUE, text |-> <<>>]
                /\ aiResponse' = NoResponse("null")
                /\ apiPc' = "done"
                /\ UNCHANGED <<httpPosts, requestBody>>
           ELSE /\ httpPosts' = Append(httpPosts,
                                       [endpoint |-> config.endpoint,
                                        apiKey |-> config.apiKey,
                                        xApiKey |-> provider = "anthropic",
                                        outcome |-> [kind |-> "pending", status |-> 0,
                                                     text |-> <<>>]])
                /\ requestBody' = requestFormat(config.model, inputTokens)
                /\ apiPc' = "posting"
                /\ UNCHANGED <<toasts, rawText, aiResponse>>
    /\ UNCHANGED <<provider, autoApplyChanges, openaiApiKey, anthropicApiKey,
                   openaiModel, inputTokens>>
    /\ UNCHANGED <<debVars, mutVars, regVars, indexVars, chatVars>>

\* the post settles: lines 178-196, then getAiResponse lines 203-226.  A 200
\* reply has the shape of the endpoint that sent it; lines 178-180 pick the
\* field by the provider argument, and reading the other shape throws a
\* TypeError, which the catch reports like an error without a response.
ReplyArrives ==
    /\ apiPc = "posting"
    /\ \E o \in Outcomes :
         LET n == Len(httpPosts)
             read == o.kind = "ok" /\ provider = httpPosts[n].endpoint
             msg == IF read THEN [null |-> FALSE, text |-> o.text]
                    ELSE [null |-> TRUE, text |-> <<>>]
         IN  /\ httpPosts' = [httpPosts EXCEPT ![n].outcome = o]
             /\ toasts' = IF read THEN toasts
                          ELSE Append(toasts,
                                      ToastFor(IF o.kind = "status" THEN o.status ELSE 0,
                                               provider))
             /\ rawText' = msg
             /\ aiResponse' = parseAiMessage(msg)
             /\ apiPc' = "done"
    /\ UNCHANGED <<provider, autoApplyChanges, openaiApiKey, anthropicApiKey,
                   openaiModel, inputTokens, requestBody>>
    /\ UNCHANGED <<debVars, mutVars, regVars, indexVars, chatVars>>

\* chat.ts lines 150-161 once getAiResponse has returned: through the
\* catch-all generator (part_008 lines 41-49) or through the branch of line
\* 155 a null becomes a response with no actions and a fixed message, and
\* the response is handed to applyResponseChanges together with the panel
ApplyResponse ==
    /\ apiPc = "done"
    /\ pc = "off"
    /\ \E generator \in {"general", "undefined"} :
         LET FromJson(a) == MkAction(Get(a, "type").s, <<>>, <<>>, <<>>, NoText, NoText)
             substitute ==
                 IF generator = "general"
                 THEN "No valid response received from the AI. Please try again or refine your request."
                 ELSE "Failed to get a response from AI."
         IN  parsedResponse' =
                 IF aiResponse.kind = "null"
                 THEN [isArray |-> TRUE, actions |-> <<>>, message |-> substitute]
                 ELSE [isArray |-> TRUE,
                       actions |-> [k \in 1..Len(aiResponse.actions) |->
                                       FromJson(aiResponse.actions[k])],
                       message |-> IF Len(aiResponse.message) = 1
                                   THEN aiResponse.message[1] ELSE "(raw text)"]
    /\ panel' = TRUE
    /\ fs0' = fs
    /\ history0' = history
    /\ pc' = "start"
    /\ UNCHANGED <<rootPath, fs, visible, active, history, idx, confirm, promptOutcome,
                   prompts, allSucceeded, attempted, failed, ops, posted, notices>>
    /\ UNCHANGED <<debVars, regVars, extVars>>

(***************************************************************************)
(* Project indexer (fileOperations.ts, lines 17-85).  A name is            *)
(* [stem, ext]; a path is the sequence of names below the workspace root.  *)
(***************************************************************************)
\* a directory entry as readDirectory reports it; ok tells whether the host
\* lets it be listed (a directory) or read (a file)
Entry(stem, ext, kind, ok, children) ==
    [name |-> [stem |-> stem, ext |-> ext], kind |-> kind, ok |-> ok,
     children |-> children]

RECURSIVE readDirectoryRecursive(_, _), ReadEntries(_, _, _, _)

\* lines 17-35: a failing readDirectory leaves the list empty
readDirectoryRecursive(dir, path) ==
    IF ~dir.ok THEN <<>> ELSE ReadEntries(dir.children, path, 1, <<>>)

\* the for loop of lines 22-30 from entry k on; the test of line 24 is
\* /\.(ts|js)$/ on the name; a failing readFile leaves the loop through the
\* catch of line 31 with the files pushed so far
ReadEntries(entries, path, k, files) ==
    IF k > Len(entries) THEN files
    ELSE LET e == entries[k]
             p == Append(path, e.name)
         IN  IF e.kind = "file" /\ e.name.ext \in {"ts", "js"}
             THEN IF e.ok THEN ReadEntries(entries, path, k + 1, Append(files, p))
                  ELSE files
             ELSE IF e.kind = "dir"
                  THEN ReadEntries(entries, path, k + 1,
                                   files \o readDirectoryRecursive(e, p))
                  ELSE ReadEntries(entries, path, k + 1, files)

\* lines 49-60: activeFileData
activeFileData(doc) ==
    IF doc.open /\ doc.languageId \in {"typescript", "javascript"}
    THEN [defined |-> TRUE, path |-> doc.path]
    ELSE [defined |-> FALSE, path |-> <<>>]

IsOtherFile_any(file, activeFile) == TRUE

\* line 74: file.path !== activeFileData?.path
IsOtherFile(file, activeFile) == ~activeFile.defined \/ file # activeFile.path

\* lines 41-85; an index entry is the path (the symbols are left out)
BuildProjectIndex ==
    /\ indexPc = "start"
    /\ IF ~workspaceDir.open
       THEN projectIndex' = <<>>
       ELSE LET activeFile == activeFileData(activeDoc)
                allFiles == readDirectoryRecursive(workspaceDir.root, <<>>)
                Other(f) == IsOtherFile(f, activeFile)
                others == SelectSeq(allFiles, Other)
                limit == 9 - (IF activeFile.defined THEN 1 ELSE 0)
                otherFiles == SubSeq(others, 1, IF Len(others) < limit THEN Len(others)
                                                ELSE limit)
            IN  projectIndex' = (IF activeFile.defined THEN <<activeFile.path>> ELSE <<>>)
                                \o otherFiles
    /\ indexPc' = "done"
    /\ UNCHANGED <<workspaceDir, activeDoc>>
    /\ UNCHANGED <<debVars, mutVars, regVars, apiVars, chatVars>>

\* workspaces the indexer is run on: none, or a root folder holding up to
\* MaxFiles source files (one of them possibly unreadable), with a note or
\* a sub-folder before or after them
IndexWorkspaces ==
    LET SourceFiles(n, bad) ==
            [k \in 1..n |-> Entry(k, IF k % 2 = 0 THEN "js" ELSE "ts", "file",
                                  k # bad, <<>>)]
        Root(ok, children) == [open |-> TRUE, root |-> Entry(0, "", "dir", ok, children)]
        tops == {SourceFiles(n, bad) : n \in 0..MaxFiles, bad \in {0, 1, 3}}
        subDirs == {Entry(0, "", "dir", l, SourceFiles(m, 0)) : l \in BOOLEAN, m \in 1..2}
    IN  {[open |-> FALSE, root |-> Entry(0, "", "dir", FALSE, <<>>)]}
        \cup {Root(TRUE, t) : t \in tops}
        \cup {Root(TRUE, <<Entry(1, "md", "file", TRUE, <<>>)>> \o t) : t \in tops}
        \cup {Root(TRUE, <<d>> \o t) : d \in subDirs, t \in tops}
        \cup {Root(TRUE, t \o <<d>>) : d \in subDirs, t \in tops}
        \cup {Root(FALSE, SourceFiles(2, 0))}

\* the active editor: none, or a document of some language showing one of
\* the first or last source files of the root, a file of a sub-folder, the
\* note, or a file outside the workspace
ActiveDocs(ws) ==
    LET top == {<<ws.root.children[k].name>> : k \in 1..Len(ws.root.children)}
        picks == {p \in top : p[1].stem \in {1, 2, MaxFiles}}
                 \cup {<<[stem |-> 0, ext |-> ""], [stem |-> 1, ext |-> "ts"]>>}
                 \cup {<<[stem |-> 0, ext |-> "out"], [stem |-> 1, ext |-> "ts"]>>}
    IN  {[open |-> FALSE, languageId |-> "", path |-> <<>>]}
        \cup {[open |-> TRUE, languageId |-> l, path |-> p] :
                l \in {"typescript", "javascript", "plaintext"}, p \in picks}

(***************************************************************************)
(* Conversation state (chat.ts, class Chat; fileOperations.ts 263-276).    *)
(* Each debounced submission builds a Chat, which loads the stored history *)
(* into this.history, runs sendMessage and stores this.history again.      *)
(***************************************************************************)
maxHistory == 10

\* a ChatHistoryItem; at is the exchange that made it (its timestamp)
HistoryItem(user, at) == [user |-> user, at |-> at]

\* chat.ts lines 48-51: push, then one shift when over the cap
addToHistory(h, item) ==
    LET pushed == Append(h, item)
    IN  IF Len(pushed) > maxHistory THEN Tail(pushed) ELSE pushed

\* debouncedSendMessage body: new Chat(context) -> loadHistory (lines 31-41).
\* globalState.get hands out the stored array itself or a copy of it,
\* depending on the host; with nothing stored it is the fresh default [].
NewChat ==
    /\ chatPc = "idle"
    /\ exchanges < MaxExchanges
    /\ exchanges' = exchanges + 1
    /\ referencedFiles' = <<>>
    /\ \E files \in {<<>>, <<"F">>, <<"G">>}, thatFile \in BOOLEAN :
         LET Done(t) == t.outcome = "generator"
             done == SelectSeq(turns, Done)
             Refs[k \in 0..Len(done)] == IF k = 0 THEN <<>> ELSE Refs[k - 1] \o done[k].files
         IN  turns' = Append(turns, [files |-> files, thatFile |-> thatFile,
                                     earlier |-> Refs[Len(done)],
                                     outcome |-> "pending", file |-> "none"])
    /\ chatHistory' = globalState
    /\ aliased' \in (IF globalState = <<>> THEN {FALSE} ELSE BOOLEAN)
    /\ chatPc' = "sending"
    /\ UNCHANGED <<globalState, chosen>>
    /\ UNCHANGED <<debVars, mutVars, regVars, apiVars, indexVars>>

\* lines 82-85: the file "that file" stands for, "none" when the phrase is
\* absent or the set is empty (Array.from(set).pop() is the last one added)
resolveAmbiguity(thatFile, referenced) ==
    IF thatFile /\ Len(referenced) > 0 THEN referenced[Len(referenced)] ELSE "none"

\* line 110: text.includes('that file') && !ambiguity.file
WhichFile(thatFile, referenced) ==
    thatFile /\ resolveAmbiguity(thatFile, referenced) = "none"

\* sendMessage returns before line 161: a which-file / which-error question
\* (lines 110-131) or an exception caught at line 172
ReturnsEarly ==
    /\ chatPc = "sending"
    /\ chatPc' = "idle"
    /\ \E why \in (IF WhichFile(turns[exchanges].thatFile, referencedFiles)
                    THEN {"threw", "whichFile"} ELSE {"threw", "whichError"}) :
         turns' = [turns EXCEPT ![exchanges].outcome = why]
    /\ UNCHANGED <<globalState, chatHistory, aliased, exchanges, referencedFiles, chosen>>
    /\ UNCHANGED <<debVars, mutVars, regVars, apiVars, indexVars>>

\* line 161: applyResponseChanges(response, panel, ...) returns; succeeded
\* is its allSucceeded after an applied batch, FALSE for a declined one.
\* Lines 266-274 of the mutator get the stored array, push and update.
MutatorReturns ==
    /\ chatPc = "sending"
    /\ ~WhichFile(turns[exchanges].thatFile, referencedFiles)
    /\ turns' = [turns EXCEPT ![exchanges].file =
                     resolveAmbiguity(turns[exchanges].thatFile, referencedFiles)]
    /\ \E succeeded \in BOOLEAN :
         LET item == HistoryItem("", exchanges)
         IN  IF RecordsExchange(TRUE, succeeded)
             THEN /\ globalState' = Append(globalState, item)
                  /\ chatHistory' = IF aliased THEN Append(chatHistory, item)
                                    ELSE chatHistory
             ELSE UNCHANGED <<globalState, chatHistory>>
    /\ chatPc' = "applied"
    /\ UNCHANGED <<aliased, exchanges, referencedFiles, chosen>>
    /\ UNCHANGED <<debVars, mutVars, regVars, apiVars, indexVars>>

\* line 171: this.addToHistory(...) and saveHistory
AddToHistory ==
    /\ chatPc = "applied"
    /\ chatHistory' = addToHistory(chatHistory, HistoryItem("msg", exchanges))
    /\ globalState' = chatHistory'
    /\ referencedFiles' = referencedFiles \o
                              SelectSeq(turns[exchanges].files,
                                        LAMBDA f : \A k \in 1..Len(referencedFiles) :
                                                      referencedFiles[k] # f)
    /\ turns' = [turns EXCEPT ![exchanges].outcome = "generator"]
    /\ chatPc' = "idle"
    /\ UNCHANGED <<aliased, exchanges, chosen>>
    /\ UNCHANGED <<debVars, mutVars, regVars, apiVars, indexVars>>

(***************************************************************************)
(* The configuration, the client, the indexer and the conversation at the  *)
(* start of a behaviour.  sub names the one that is run: "api" (a call of  *)
(* getAiResponse under any keys), "index" (a call of buildProjectIndex),   *)
(* "chat" (exchanges on top of the history up to maxHistory earlier ones   *)
(* left stored), "autoApply" (any value of autoApplyChanges), "request"   *)
(* (the request body of getAiMessage under any model setting and prompt    *)
(* size), "flow" (getAiResponse called by the chat flow, with the default  *)
(* provider); the others                                                   *)
(* stay idle.  package.json declares autoApplyChanges with default false;  *)
(* the keys api.ts reads are unset until the user sets them.               *)
(***************************************************************************)
ExtInit(sub) ==
    LET \* prompt sizes: a short prompt and the sizes around the two bends of
        \* the cap of each model (room = output limit, room = 0) and its window
        PromptTokens ==
            {500} \cup UNION {{MODEL_SPEC[m].contextWindow
                                   - MODEL_SPEC[m].maxOutputTokens - 100 + d,
                               MODEL_SPEC[m].contextWindow - 100 + d,
                               MODEL_SPEC[m].contextWindow + d} :
                              m \in DOMAIN MODEL_SPEC, d \in -1..1}
    IN
    /\ autoApplyChanges \in (IF sub = "autoApply" THEN BOOLEAN ELSE {FALSE})
    /\ openaiApiKey \in (IF sub \in {"api", "request", "flow"} THEN BOOLEAN ELSE {FALSE})
    /\ anthropicApiKey \in (IF sub \in {"api", "request", "flow"} THEN BOOLEAN
                            ELSE {FALSE})
    /\ openaiModel \in (IF sub = "request"
                        THEN SUPPORTED_OPENAI_MODELS \cup {"gpt-3.5-turbo"}
                        ELSE {DEFAULT_MODEL})
    /\ provider \in (IF sub \in {"api", "request"} THEN {"openai", "anthropic"}
                     ELSE {"openai"})
    /\ apiPc = (IF sub \in {"api", "request", "flow"} THEN "start" ELSE "off")
    /\ inputTokens \in (IF sub = "request" THEN PromptTokens ELSE {500})
    /\ requestBody = [sent |-> FALSE, model |-> "", max_tokens |-> 0]
    /\ httpPosts = <<>>
    /\ rawText = [null |-> TRUE, text |-> <<>>]
    /\ toasts = <<>>
    /\ aiResponse = NoResponse("pending")
    /\ workspaceDir \in (IF sub = "index" THEN IndexWorkspaces
                         ELSE {[open |-> FALSE, root |-> Entry(0, "", "dir", FALSE, <<>>)]})
    /\ activeDoc \in (IF sub = "index" THEN ActiveDocs(workspaceDir)
                      ELSE {[open |-> FALSE, languageId |-> "", path |-> <<>>]})
    /\ projectIndex = <<>>
    /\ indexPc = (IF sub = "index" THEN "start" ELSE "off")
    /\ globalState \in (IF sub = "chat"
                        THEN {[j \in 1..k |-> HistoryItem("msg", j - k)] : k \in 0..maxHistory}
                        ELSE {<<>>})
    /\ chatHistory = <<>>
    /\ aliased = FALSE
    /\ chatPc = (IF sub = "chat" THEN "idle" ELSE "off")
    /\ exchanges = 0
    /\ referencedFiles = <<>>
    /\ turns = <<>>
    /\ chosen = <<>>

Init == DebounceInit /\ MutatorInit /\ RegistryIdle /\ ExtInit("none")
Next == Begin \/ PromptEnds \/ ApplyAction \/ Report
Spec == Init /\ [][Next]_vars

InitDebounce == DebounceInit /\ MutatorIdle /\ RegistryIdle /\ ExtInit("none")
NextDebounce == (\E m \in Messages : debouncedSendMessage(m)) \/ TimerFires \/ FnSettles
SpecDebounce == InitDebounce /\ [][NextDebounce]_vars

\* the host runs a timer callback that stays due, and the wrapped function
\* terminates
SpecDebounceFair == SpecDebounce /\ WF_vars(TimerFires) /\ WF_vars(FnSettles)

(***************************************************************************)
(* Generator registry (generators/index.ts) and the detect functions.      *)
(* A text is a sequence of one-character strings.                          *)
(***************************************************************************)
\* the characters of a word
Chars(w) ==
    CASE w = "create" -> <<"c", "r", "e", "a", "t", "e">>
      [] w = "make" -> <<"m", "a", "k", "e">>
      [] w = "build" -> <<"b", "u", "i", "l", "d">>
      [] w = "generate" -> <<"g", "e", "n", "e", "r", "a", "t", "e">>
      [] w = "develop" -> <<"d", "e", "v", "e", "l", "o", "p">>
      [] w = "setup" -> <<"s", "e", "t", "u", "p">>
      [] w = "a" -> <<"a">>
      [] w = "new" -> <<"n", "e", "w">>
      [] w = "todo" -> <<"t", "o", "d", "o">>
      [] w = "Todo" -> <<"T", "o", "d", "o">>
      [] w = "task" -> <<"t", "a", "s", "k">>
      [] w = "app" -> <<"a", "p", "p">>
      [] w = "list" -> <<"l", "i", "s", "t">>
      [] w = "application" -> <<"a", "p", "p", "l", "i", "c", "a", "t", "i", "o", "n">>
      [] w = "calculator" -> <<"c", "a", "l", "c", "u", "l", "a", "t", "o", "r">>
      [] w = "calc" -> <<"c", "a", "l", "c">>
      [] w = "calculation" -> <<"c", "a", "l", "c", "u", "l", "a", "t", "i", "o", "n">>
      [] w = "tool" -> <<"t", "o", "o", "l">>
      [] w = "notepad" -> <<"n", "o", "t", "e", "p", "a", "d">>
      [] w = "text" -> <<"t", "e", "x", "t">>
      [] w = "editor" -> <<"e", "d", "i", "t", "o", "r">>
      [] w = "note" -> <<"n", "o", "t", "e">>
      [] w = "taking" -> <<"t", "a", "k", "i", "n", "g">>
      [] w = "writing" -> <<"w", "r", "i", "t", "i", "n", "g">>
      [] w = "react" -> <<"r", "e", "a", "c", "t">>
      [] w = "component" -> <<"c", "o", "m", "p", "o", "n", "e", "n", "t">>

RECURSIVE Text(_)
\* the words joined by single spaces
Text(words) ==
    IF words = <<>> THEN <<>>
    ELSE IF Len(words) = 1 THEN Chars(words[1])
    ELSE Chars(words[1]) \o <<" ">> \o Text(Tail(words))

\* String.prototype.toLowerCase on the letters that occur in upper case
toLowerCase(s) ==
    [i \in 1..Len(s) |->
        CASE s[i] = "T" -> "t" [] s[i] = "C" -> "c" [] s[i] = "U" -> "u"
          [] s[i] = "A" -> "a" [] s[i] = "I" -> "i" [] s[i] = "N" -> "n"
          [] OTHER -> s[i]]

\* String.prototype.includes
Includes(s, sub) == \E i \in 0..(Len(s) - Len(sub)) : SubSeq(s, i + 1, i + Len(sub)) = sub

\* the detect shared by todo.ts, notepad.ts and the calculator generator:
\* directMatch || actionMatch over the keyword and action lists
KeywordDetect(keywords, actions, input) ==
    LET directMatch == \E k \in keywords : Includes(toLowerCase(input), Text(k))
        actionMatch == \E a \in actions : \E k \in keywords :
                          \/ Includes(toLowerCase(input), Text(<<a>> \o k))
                          \/ Includes(toLowerCase(input), Text(<<a, "a">> \o k))
    IN  directMatch \/ actionMatch

\* todoAppGenerator.detect (apps/todo.ts, lines 9-25)
todoDetect(input) ==
    KeywordDetect({<<"todo", "app">>, <<"todo", "list">>, <<"task", "app">>,
                   <<"task", "list">>, <<"todo", "application">>},
                  {"create", "make", "build", "generate", "develop"}, input)

\* notepadGenerator.detect (utilities/notepad.ts, lines 8-24)
notepadDetect(input) ==
    KeywordDetect({<<"notepad">>, <<"text", "editor">>, <<"note", "taking">>, <<"writing", "app">>},
                  {"create", "make", "build", "setup", "generate"}, input)

\* calculatorGenerator.detect
calculatorDetect(input) ==
    KeywordDetect({<<"calculator">>, <<"calc">>, <<"calculation", "tool">>},
                  {"create", "make", "build", "setup", "generate"}, input)

\* the three case-insensitive patterns of the React component generator, on
\* texts whose white space is single spaces
reactDetect(input) ==
    \/ \E v \in {"create", "generate"} :
          \/ Includes(toLowerCase(input), Text(<<v, "react", "component">>))
          \/ Includes(toLowerCase(input), Text(<<v, "a", "react", "component">>))
    \/ \E v \in {"create", "make", "build"} :
          \/ Includes(toLowerCase(input), Text(<<v, "component">>))
          \/ Includes(toLowerCase(input), Text(<<v, "a", "component">>))
          \/ Includes(toLowerCase(input), Text(<<v, "new", "component">>))
          \/ Includes(toLowerCase(input), Text(<<v, "a", "new", "component">>))

\* snake.ts and ticTacToe.ts define `patterns` and no detect function
HasDetect(g) == g \notin {"snakeGame", "ticTacToeGame"}

\* generator.detect(input) for a generator that has one
Detect(g, input) ==
    CASE g = "todoApp" -> todoDetect(input)
      [] g = "notepad" -> notepadDetect(input)
      [] g = "calculator" -> calculatorDetect(input)
      [] g = "react" -> reactDetect(input)
      [] g = "general" -> TRUE

RECURSIVE findGenerator(_, _)
\* generators.find(generator => generator.detect(input)); calling the missing
\* detect of a generator throws a TypeError out of find
findGenerator(gens, input) ==
    IF gens = <<>> THEN "undefined"
    ELSE IF ~HasDetect(Head(gens)) THEN "TypeError"
    ELSE IF Detect(Head(gens), input) THEN Head(gens)
    ELSE findGenerator(Tail(gens), input)

\* registerGenerator: generators.push(generator)
registerGenerator(gens, g) == Append(gens, g)

\* generators/index.ts is evaluated: its import of games/snake runs the
\* registerGenerator call at the end of snake.ts, then lines 13 and 16
LoadIndex ==
    /\ pc = "off"
    /\ "index" \notin loaded
    /\ generators' = registerGenerator(registerGenerator(registerGenerator(generators,
                        "snakeGame"), "snakeGame"), "general")
    /\ loaded' = loaded \cup {"index"}
    /\ UNCHANGED <<request, selected>>
    /\ UNCHANGED <<debVars, mutVars, extVars>>

\* the modules that import registerGenerator from the index and call it on
\* their last lines, grouped as chat.ts and app.ts import them
GamesModules == {"ticTacToeGame"}
AppsModules == {"todoApp", "calculator", "react"}
UtilitiesModules == {"notepad"}

\* a self-registering module is evaluated: games, then apps (chat.ts lines
\* 17-18), then utilities (app.ts lines 2-4); its import of the index has the
\* index evaluated first
LoadModule(m) ==
    /\ pc = "off"
    /\ "index" \in loaded
    /\ m \notin loaded
    /\ selected = "pending"
    /\ m \in AppsModules => GamesModules \subseteq loaded
    /\ m \in UtilitiesModules => (GamesModules \cup AppsModules) \subseteq loaded
    /\ generators' = registerGenerator(generators, m)
    /\ loaded' = loaded \cup {m}
    /\ UNCHANGED <<request, selected>>
    /\ UNCHANGED <<debVars, mutVars, extVars>>

Words == {"create", "a", "todo", "app", "Todo", "notepad"}
Requests == {Text(ws) : ws \in UNION {[1..n -> Words] : n \in 0..MaxWords}}

\* Chat.sendMessage calls findGenerator once the imports of chat.ts are done
FindGenerator(input) ==
    /\ pc = "off"
    /\ (GamesModules \cup AppsModules) \subseteq loaded
    /\ selected = "pending"
    /\ request' = input
    /\ selected' = findGenerator(generators, input)
    /\ UNCHANGED <<generators, loaded>>
    /\ UNCHANGED <<debVars, mutVars, extVars>>

\* part_005 lines 125-137 (summarizeChatHistory, with truncateString of
\* lines 30-34 at the default maxLength); an item is [user, ai]
summarizeChatHistory(h) ==
    LET maxLength == 1000
        Line(item) == <<"U", "s", "e", "r", ":", " ">> \o item.user
                      \o <<"\n", "A", "I", ":", " ">> \o item.ai
        Joined[k \in 0..Len(h)] ==
            IF k = 0 THEN <<>>
            ELSE IF k = 1 THEN Line(h[1])
            ELSE Joined[k - 1] \o <<"\n", "\n">> \o Line(h[k])
        fullSummary == Joined[Len(h)]
        cut == SubSeq(fullSummary, 1, maxLength - 3)
        TrimEnd[k \in 0..Len(cut)] ==
            IF k = 0 THEN <<>>
            ELSE IF cut[k] \in {" ", "\n"} THEN TrimEnd[k - 1] ELSE SubSeq(cut, 1, k)
    IN  IF Len(h) = 0
        THEN <<"N", "o", " ", "p", "r", "i", "o", "r", " ",
               "c", "o", "n", "t", "e", "x", "t", ".">>
        ELSE IF Len(fullSummary) <= maxLength THEN fullSummary
        ELSE TrimEnd[Len(cut)] \o <<".", ".", ".">>

\* chat.ts lines 134-150: the prompt is the summary of this.history followed
\* by the user text, and findGenerator is called on the prompt.  The store
\* holds nothing, or an earlier exchange about a todo app or about a note.
ChooseGenerator ==
    /\ pc = "off"
    /\ (GamesModules \cup AppsModules) \subseteq loaded
    /\ Len(chosen) < MaxRuns
    /\ \E text \in {Text(<<"create", "a", "notepad">>), Text(<<"a", "new", "app">>),
                     Text(<<"create", "a", "todo", "app">>)},
          stored \in {<<>>,
                      <<[user |-> Text(<<"create", "a", "todo", "app">>),
                         ai |-> Text(<<"Todo", "app">>)]>>,
                      <<[user |-> Text(<<"a", "note">>), ai |-> Text(<<"notepad">>)],
                        [user |-> Text(<<"new", "text">>), ai |-> Text(<<"editor">>)]>>} :
         LET fullPrompt == summarizeChatHistory(stored)
                           \o <<"\n", "\n", "U", "s", "e", "r", ":", " ">> \o text
         IN  /\ request' = fullPrompt
             /\ selected' = findGenerator(generators, fullPrompt)
             /\ chosen' = Append(chosen, [text |-> text, history |-> stored,
                                          generator |-> selected'])
    /\ UNCHANGED <<generators, loaded>>
    /\ UNCHANGED <<globalState, chatHistory, aliased, chatPc, exchanges,
                   referencedFiles, turns>>
    /\ UNCHANGED <<debVars, mutVars, apiVars, indexVars>>

InitRegistry == DebounceInit /\ MutatorIdle /\ RegistryIdle /\ ExtInit("none")
NextRegistry ==
    \/ LoadIndex
    \/ \E m \in GamesModules \cup AppsModules \cup UtilitiesModules : LoadModule(m)
    \/ \E input \in Requests : FindGenerator(input)
SpecRegistry == InitRegistry /\ [][NextRegistry]_vars

\* runs of sendMessage up to its findGenerator call, on any stored history
SpecPrompt == InitRegistry /\ [][LoadIndex \/ (\E m \in GamesModules \cup AppsModules :
                                               LoadModule(m)) \/ ChooseGenerator]_vars

(***************************************************************************)
(* Specifications of the client, the indexer, the conversation and the     *)
(* mutator under every value of autoApplyChanges                           *)
(***************************************************************************)
InitApi == DebounceInit /\ MutatorIdle /\ RegistryIdle /\ ExtInit("api")
NextApi == SendRequest \/ ReplyArrives
SpecApi == InitApi /\ [][NextApi]_vars

\* a chat message from the model call to the end of applyResponseChanges;
\* chat.ts and the catch-all generator call getAiResponse without a provider
InitFlow == DebounceInit /\ MutatorIdle /\ RegistryIdle /\ ExtInit("flow")
NextFlow ==
    \/ SendRequest \/ ReplyArrives \/ ApplyResponse
    \/ Begin \/ PromptEnds \/ ApplyAction \/ Report
SpecFlow == InitFlow /\ [][NextFlow]_vars

\* the request getAiMessage builds, for any model setting and prompt size
InitRequest == DebounceInit /\ MutatorIdle /\ RegistryIdle /\ ExtInit("request")
SpecRequest == InitRequest /\ [][SendRequest]_vars

InitIndex == DebounceInit /\ MutatorIdle /\ RegistryIdle /\ ExtInit("index")
SpecIndex == InitIndex /\ [][BuildProjectIndex]_vars

InitChat == DebounceInit /\ MutatorIdle /\ RegistryIdle /\ ExtInit("chat")
NextChat == NewChat \/ ReturnsEarly \/ MutatorReturns \/ AddToHistory
SpecChat == InitChat /\ [][NextChat]_vars

\* the mutator on batches of one action, the flag on or off
InitAutoApply ==
    /\ DebounceInit
    /\ MutatorInitWith(Roots, {r \in Responses : Len(r.actions) = 1})
    /\ RegistryIdle
    /\ ExtInit("autoApply")
SpecAutoApply == InitAutoApply /\ [][Next]_vars

\* batches that create and delete, in a workspace whose folder is /w or
\* "/my w" (workspaceFolders[0].uri.fsPath is whatever folder the user opened)
InitRoots ==
    /\ DebounceInit
    /\ MutatorInitWith(Roots \cup { <<"/", "m", "y", " ", "w">> },
                       {r \in Responses :
                           /\ r.message = "Done."
                           /\ \A k \in 1..Len(r.actions) :
                                  /\ r.actions[k].type \in {"createFolder", "createFile",
                                                            "deleteFile", "deleteFolder"}
                                  /\ r.actions[k].path \in {pA, pB}})
    /\ RegistryIdle
    /\ ExtInit("none")
SpecRoots == InitRoots /\ [][Next]_vars

(***************************************************************************)
(* Properties                                                              *)
(***************************************************************************)
Actions == parsedResponse.actions
AllInsertText == \A i \in 1..Len(Actions) : Actions[i].type = "insertText"
OpsOf(i, name) == {k \in 1..Len(ops) : ops[k].i = i /\ ops[k].op = name}
CallsSharing(p) == {k \in 1..Len(returned) : returned[k] = p}
ExecsFor(p) == {k \in 1..Len(execs) : execs[k].promise = p}

\* C1: when a second submission arrives before the timer of the first has
\* fired, the wrapped sendMessage runs exactly once for the two of them: never
\* twice, and not zero times (either it ran, or its timer is still armed).
C1_ExactlyOneExecution ==
    \A p \in 1..Len(settled) :
        Cardinality(CallsSharing(p)) >= 2 =>
            /\ Cardinality(ExecsFor(p)) <= 1
            /\ (ExecsFor(p) # {} \/ \E t \in armed : t.promise = p)

\* C2: a response whose actions are all insertText (the empty list included)
\* never shows the confirmation prompt.
C2_NoPromptForInsertText ==
    (parsedResponse.isArray /\ AllInsertText) => (prompts = 0 /\ pc # "prompt")

\* C2 witness: a non-empty insertText-only batch was applied to the end
C2_Witness ==
    /\ pc = "done" /\ Len(Actions) > 0 /\ AllInsertText
    /\ Len(attempted) = Len(Actions)
    /\ \E k \in 1..Len(ops) : ops[k].op = "insert"

\* C3: after the answer "No" nothing was mutated: no host call was issued, the
\* workspace and the chat history are as they were, no action was attempted,
\* and the panel, when present, received exactly "Changes discarded.".
C3_NoDiscardsBatch ==
    (promptOutcome = "No") =>
        /\ pc = "done"
        /\ ops = <<>> /\ attempted = <<>>
        /\ fs = fs0 /\ history = history0
        /\ posted = IF panel THEN <<Post("discarded", "Changes discarded.")>> ELSE <<>>

\* C3 witness: a batch with a non-insertText action was declined with a panel
C3_Witness ==
    /\ promptOutcome = "No" /\ panel /\ pc = "done"
    /\ \E i \in 1..Len(Actions) : Actions[i].type = "createFile"

\* C4: when the prompt times out the batch is neither blocked nor discarded:
\* confirm is still 'Yes', nothing is reported as discarded, and every action
\* of the batch is attempted by the time the handler returns.
C4_TimeoutProceeds ==
    (promptOutcome = "timeout") =>
        /\ confirm = "Yes"
        /\ pc \in {"apply", "done"}
        /\ \A k \in 1..Len(posted) : posted[k].kind # "discarded"
        /\ pc = "done" => attempted = [j \in 1..Len(Actions) |-> j]

\* C4 witness: a timed-out prompt followed by a successful host mutation
C4_Witness ==
    /\ promptOutcome = "timeout" /\ pc = "done"
    /\ \E k \in 1..Len(ops) : ops[k].op \in {"writeFile", "createDirectory", "delete"} /\ ops[k].ok

C6_OutOfRangeEditApplied ==
    \A i \in Range(attempted) :
        (Actions[i].type = "editFile" /\ \E k \in OpsOf(i, "openTextDocument") : ops[k].ok)
            => /\ OpsOf(i, "applyEdit") # {}
               /\ (i \in DOMAIN failed => failed[i] # "Illegal value for line")

\* C7: every filesystem location the mutator touches lies inside the
\* workspace root, whatever path string the action carries.
C7_StaysInsideRoot ==
    \A k \in 1..Len(ops) :
        ops[k].op \in {"stat", "createDirectory", "writeFile", "openTextDocument",
                       "applyEdit", "delete"}
            => InsideRoot(ops[k].loc)

C9_DeleteClosesItsEditor ==
    \A i \in 1..Len(Actions) : \A d \in OpsOf(i, "delete") :
        (Actions[i].type = "deleteFile" /\ pc = "apply" /\ idx = i + 1) =>
            /\ \A c \in OpsOf(i, "closeActiveEditor") : c < d /\ ops[c].loc = ops[d].loc
            /\ \A e \in DOMAIN visible : visible[e] # ops[d].loc

\* C10: once the generators are registered, the catch-all generator is the
\* last entry of the registry and the request "create a todo app" is selected
\* for the todo generator.
C10_TodoBeforeCatchAll ==
    (selected # "pending") =>
        /\ generators[Len(generators)] = "general"
        /\ \A k \in 1..(Len(generators) - 1) : generators[k] # "general"
        /\ request = Text(<<"create", "a", "todo", "app">>) => selected = "todoApp"

\* C11: for every non-empty raw model text that JSON.parse rejects and that
\* holds no fenced json block JSON.parse accepts, getAiResponse returns
\* {actions: [], message: the raw text unchanged}; it does not throw.
C11_MalformedFallsBack ==
    (/\ apiPc = "done"
     /\ ~rawText.null
     /\ rawText.text # <<>>
     /\ ~JSONparse(rawText.text).ok
     /\ (~jsonMatch(rawText.text).matched
         \/ ~JSONparse(jsonMatch(rawText.text).inner).ok))
    => aiResponse = [kind |-> "response", actions |-> <<>>, message |-> rawText.text]

\* the truncated document {"actions":[{"type":"hi" has been answered
C11_Witness ==
    /\ apiPc = "done"
    /\ rawText = [null |-> FALSE,
                  text |-> <<"{", "str:actions", ":", "[", "{", "str:type", ":", "str:hi">>]
    /\ aiResponse.kind = "response"
    /\ aiResponse.actions = <<>>

\* C12: the history stored under 'chatHistory' never holds more than
\* maxHistory (10) items.
C12_StoredHistoryWithinCap == Len(globalState) <= maxHistory

\* C13: when the key of the requested provider is unset, no HTTP request is
\* issued, and once getAiResponse has returned it returned null and an error
\* was shown; for 'openai' and 'anthropic' alike.
C13_MissingKeyIsHardStop ==
    ~(IF provider = "anthropic" THEN anthropicApiKey ELSE openaiApiKey) =>
        /\ httpPosts = <<>>
        /\ apiPc = "done" => (aiResponse = NoResponse("null") /\ toasts # <<>>)

\* C14: when the POST fails with a connection-timeout-class error, null is
\* returned only after more than one attempt has been made.
C14_TimeoutIsRetried ==
    (/\ apiPc = "done"
     /\ httpPosts # <<>>
     /\ httpPosts[1].outcome.kind = "network"
     /\ httpPosts[1].outcome.text[1] \in {"ETIMEDOUT", "ECONNABORTED"})
    => Len(httpPosts) > 1

C16_IndexCapAndOrder ==
    indexPc = "done" =>
        /\ Len(projectIndex) <= 10
        /\ \A i, j \in 1..Len(projectIndex) : projectIndex[i] = projectIndex[j] => i = j
        /\ (/\ workspaceDir.open
            /\ activeDoc.open
            /\ activeDoc.languageId \in {"typescript", "javascript"})
           => (projectIndex # <<>> /\ projectIndex[1] = activeDoc.path)

\* more source files than the list takes, the active one the last of them
C16_Witness ==
    /\ indexPc = "done"
    /\ workspaceDir.open
    /\ Len(readDirectoryRecursive(workspaceDir.root, <<>>)) > 10
    /\ activeDoc.open
    /\ activeDoc.languageId = "typescript"
    /\ Len(activeDoc.path) = 1
    /\ activeDoc.path[1].stem = MaxFiles
    /\ Len(projectIndex) = 9
    /\ projectIndex[1] = activeDoc.path

\* C17: with myAiAssistant.autoApplyChanges true the Yes/No prompt is never
\* shown.
C17_AutoApplySkipsPrompt == autoApplyChanges => prompts = 0

\* C18: at most one execution of the wrapped sendMessage is in flight at any
\* time, and a call made while a promise is pending is handed that promise
\* and starts nothing: no timer, no execution, no new promise.
C18_SingleFlight ==
    /\ [](Cardinality(inflight) <= 1)
    /\ [][(activePromise # 0 /\ Len(returned') = Len(returned) + 1) =>
            (/\ returned'[Len(returned')] = activePromise
             /\ armed' \subseteq armed
             /\ inflight' = inflight
             /\ execs' = execs
             /\ settled' = settled)]_vars

\* a second call arrived while the execution of the first was in flight
C18_Witness ==
    /\ Cardinality(inflight) = 1
    /\ Len(returned) >= 2
    /\ returned[Len(returned)] = activePromise
    /\ \E x \in inflight : x.promise = activePromise
    /\ Cardinality(CallsSharing(activePromise)) >= 2

\* C19: when applyResponseChanges has returned, the stored history has grown
\* (by one item, at its end) if and only if a panel was given and every
\* action of the batch was applied without error; otherwise it is what it
\* was.  A response without an action array has no batch and is not recorded.
C19_HistoryIffPanelAndSuccess ==
    LET Attempted(i) == \E k \in 1..Len(attempted) : attempted[k] = i
        everyActionSucceeded ==
            /\ parsedResponse.isArray
            /\ \A i \in 1..Len(Actions) : Attempted(i) /\ i \notin DOMAIN failed
    IN  IF pc = "done" /\ panel /\ everyActionSucceeded
        THEN /\ Len(history) = Len(history0) + 1
             /\ SubSeq(history, 1, Len(history0)) = history0
             /\ history[Len(history)].files = ActionPaths(Actions)
        ELSE history = history0

\* a batch with an action in it succeeded with a panel
C19_Witness ==
    /\ pc = "done"
    /\ panel
    /\ Len(Actions) >= 1
    /\ failed = [j \in {} |-> ""]
    /\ Len(attempted) = Len(Actions)
    /\ Len(history) = Len(history0) + 1

\* C20: an editFile action is rejected for missing fields only when its
\* path, range or newText is absent; newText = "" (length 0) is present.
C20_EditRejectedOnlyWhenFieldAbsent ==
    \A i \in DOMAIN failed :
        (/\ Actions[i].type = "editFile"
         /\ failed[i] = "Path, range, and newText required for editFile.")
        => (\/ ~HasPath(Actions[i])
            \/ Actions[i].range = <<>>
            \/ Actions[i].newText = NoText)

\* C21: for a raw text that parses as a JSON object whose actions member is
\* not an array and whose message member is a string m, getAiResponse
\* returns {actions: [], message: m}.
C21_NonArrayActionsCoerced ==
    (/\ apiPc = "done"
     /\ ~rawText.null
     /\ JSONparse(rawText.text).ok
     /\ JSONparse(rawText.text).val.t = "object"
     /\ Get(JSONparse(rawText.text).val, "actions").t # "array"
     /\ Get(JSONparse(rawText.text).val, "message").t = "string")
    => aiResponse = [kind |-> "response", actions |-> <<>>,
                     message |-> <<Get(JSONparse(rawText.text).val, "message").s>>]

\* C23: when buildProjectIndex has scanned a workspace whose folders can all
\* be listed, every readable file named *.ts or *.js of the root and of its
\* sub-folders is in the list readDirectoryRecursive returns, whether or not
\* another file could not be read.
C23_UnreadableFileAloneSkipped ==
    (indexPc = "done" /\ workspaceDir.open /\ workspaceDir.root.ok) =>
        LET found == readDirectoryRecursive(workspaceDir.root, <<>>)
            Found(p) == \E k \in 1..Len(found) : found[k] = p
            Eligible(e) == e.kind = "file" /\ e.name.ext \in {"ts", "js"} /\ e.ok
            top == workspaceDir.root.children
        IN  \A k \in 1..Len(top) :
                /\ Eligible(top[k]) => Found(<<top[k].name>>)
                /\ (top[k].kind = "dir" /\ top[k].ok) =>
                       \A j \in 1..Len(top[k].children) :
                           Eligible(top[k].children[j]) =>
                               Found(<<top[k].name, top[k].children[j].name>>)

\* C26: every item of the stored history carries a user message, and once an
\* exchange is over the stored history holds at most one item made by it.
C26_OneItemPerExchange ==
    /\ \A k \in 1..Len(globalState) : globalState[k].user # ""
    /\ chatPc = "idle" =>
           \A n \in 1..exchanges :
               Cardinality({k \in 1..Len(globalState) : globalState[k].at = n}) <= 1

\* C30: every message posted to the panel carries the command 'chat' or
\* 'error', the two the webview's listener displays.
C30_PostedMessagesCarryCommand ==
    \A k \in 1..Len(posted) : posted[k].command \in {"chat", "error"}

\* C24: the max_tokens of a request body is max(1, min(maxOutputTokens,
\* contextWindow - p - 100)) for the model sent and the prompt token count p:
\* the output limit while the room left is at least that, the room while it
\* is between 1 and the limit, and 1 once no room is left; so it always lies
\* between 1 and the model's maxOutputTokens.
C24_MaxTokensCapped ==
    requestBody.sent =>
        /\ requestBody.model \in DOMAIN MODEL_SPEC
        /\ LET limit == MODEL_SPEC[requestBody.model].maxOutputTokens
               room == MODEL_SPEC[requestBody.model].contextWindow - inputTokens - 100
           IN  /\ requestBody.max_tokens >= 1
               /\ requestBody.max_tokens <= limit
               /\ room >= limit => requestBody.max_tokens = limit
               /\ (room >= 1 /\ room < limit) => requestBody.max_tokens = room
               /\ room < 1 => requestBody.max_tokens = 1

\* C24 witness: a request was sent for a prompt that leaves no room in the
\* context window, and one token is asked for
C24_Witness ==
    /\ requestBody.sent
    /\ MODEL_SPEC[requestBody.model].contextWindow - inputTokens - 100 < 1
    /\ requestBody.max_tokens = 1
    /\ Len(httpPosts) = 1

\* C22: once an exchange of the session whose message referenced a file with
\* @file:F was completed, a later message containing "that file" is not
\* answered with the "Which file?" question, and when it reaches the
\* generators "that file" stands for the most recently referenced path.
C22_ThatFileResolved ==
    \A n \in 1..Len(turns) :
        (turns[n].thatFile /\ Len(turns[n].earlier) > 0) =>
            /\ turns[n].outcome # "whichFile"
            /\ turns[n].outcome = "generator" =>
                   turns[n].file = turns[n].earlier[Len(turns[n].earlier)]

\* C25: every promise handed to a caller of the debounced function
\* eventually settles (given that the timer callback runs when due and the
\* wrapped function terminates), so the debouncer never keeps holding a
\* promise that cannot settle.
C25_EveryPromiseSettles ==
    \A p \in 1..MaxCalls :
        (Len(settled) >= p) ~> (Len(settled) >= p /\ settled[p] # "pending")

C28_DeleteHitsCreateLocation ==
    \A j \in 1..Len(ops), k \in 1..Len(ops) :
        (/\ ops[j].op \in {"createDirectory", "writeFile"}
         /\ ops[k].op = "delete"
         /\ parsedResponse.actions[ops[j].i].path = parsedResponse.actions[ops[k].i].path)
        => ops[j].loc = ops[k].loc

\* C29: when getAiResponse returned null, the chat flow that follows shows
\* no "Changes applied successfully!" notification and the mutator appends
\* no item to the stored chat history.
C29_FailureNotReportedAsSuccess ==
    (aiResponse.kind = "null" /\ pc = "done") =>
        /\ \A k \in 1..Len(notices) : notices[k] # "Changes applied successfully!"
        /\ history = history0

====
